---- MODULE Spec2Model ----
(***************************************************************************)
(* Model of PA1.py: three primality detectors (Wilson, trial division,     *)
(* Miller-Rabin), the upper bound on the nth prime and the nth-prime       *)
(* finder that scans 2..B with a caller-selected detector.                 *)
(*                                                                         *)
(* The pure functions are operators computed the way the code computes     *)
(* them.  Two specifications apply them:                                   *)
(*   LeafSpec  one direct call of a leaf function (a detector on k, or     *)
(*             the bound estimator on n);                                  *)
(*   Spec      calls of nth_prime_via_detector: the same n and bound       *)
(*             function handed to each detector of a list in turn.         *)
(* Miller-Rabin's random base is a nondeterministic choice per round.      *)
(***************************************************************************)
EXTENDS Integers, Sequences, FiniteSets, TLC

\* ------------------------------------------------------------ bounds
\* Candidates of a direct detector call range over -NegK..MaxK.
NegK == 3
MaxK == 1000
\* Round counts of a direct Miller-Rabin call range over 0..MaxRounds.
MaxRounds == 9
\* Ranks handed to the bound estimator and to the finder: up to MaxN
\* (the finder also gets -NegN..0).  The finder is handed the two exact
\* detectors for every rank, and Miller-Rabin too for ranks up to MaxSubstN.
MaxN == 100
NegN == 2
MaxSubstN == 50
\* Caller-supplied constant bound functions return -NegB..MaxConstB, and are
\* used with ranks up to MaxConstN; caller-supplied detectors accept a subset
\* of 2..MaxAccept.
NegB == 1
MaxConstB == 7
MaxConstN == 5
MaxAccept == 6

\* ------------------------------------------------- mathematical primality
\* k is prime: k > 1 and no d in 2..k-1 divides it.
IsPrime(k) == k > 1 /\ \A dd \in 2..(k - 1) : k % dd # 0

\* The search range for the true nth prime, n <= MaxN + 1 (p_n <= 7n there).
PrimeLimit == 7 * MaxN + 14
PrimeTable == {k \in 2..PrimeLimit : IsPrime(k)}
\* The nth smallest prime.
NthPrime(i) == CHOOSE p \in PrimeTable : Cardinality({q \in PrimeTable : q <= p}) = i

\* ------------------------------------------------------- wilson_is_prime
\* The loop of lines 48-51 over the multiplicands lo..hi-1, entered in state
\* st: res is the running product, early tells whether the return inside
\* the loop (line 51) was taken.  The iterations run in the code's order;
\* the range is split in halves only to bound the depth of the evaluation.
RECURSIVE wilson_loop(_, _, _, _)
wilson_loop(k, lo, hi, st) ==
    IF st.early \/ lo >= hi THEN st
    ELSE IF hi = lo + 1
    THEN LET r == (st.res * lo) % k
         IN [res |-> r, early |-> r = 0]
    ELSE LET mid == (lo + hi) \div 2
         IN wilson_loop(k, mid, hi, wilson_loop(k, lo, mid, st))

\* wilson_run with range(1, k + 1) for range(1, k).
wilson_run_LoopToK(k) ==
    IF k < 2 THEN [ret |-> 0, early |-> FALSE]
    ELSE IF k = 2 THEN [ret |-> 1, early |-> FALSE]
    ELSE LET st == wilson_loop(k, 1, k + 1, [res |-> 1, early |-> FALSE])
         IN IF st.early THEN [ret |-> 0, early |-> TRUE]
            ELSE [ret |-> IF st.res = (k - 1) % k THEN 1 ELSE 0, early |-> FALSE]

wilson_run(k) ==
    IF k < 2 THEN [ret |-> 0, early |-> FALSE]
    ELSE IF k = 2 THEN [ret |-> 1, early |-> FALSE]
    ELSE LET st == wilson_loop(k, 1, k, [res |-> 1, early |-> FALSE])
         IN IF st.early THEN [ret |-> 0, early |-> TRUE]
            ELSE [ret |-> IF st.res = (k - 1) % k THEN 1 ELSE 0, early |-> FALSE]

wilson_is_prime(k) == wilson_run(k).ret

\* ------------------------------------------------- trial_division_is_prime
\* math.isqrt: the largest r with r*r <= k.
isqrt(k) == CHOOSE r \in 0..k : r * r <= k /\ (r + 1) * (r + 1) > k

\* trial_loop with i < limit for i <= limit.
RECURSIVE trial_loop_StrictLimit(_, _, _)
trial_loop_StrictLimit(k, i, limit) ==
    IF i < limit
    THEN IF k % i = 0 THEN 0 ELSE trial_loop_StrictLimit(k, i + 2, limit)
    ELSE 1

\* The while loop of lines 65-68.
RECURSIVE trial_loop(_, _, _)
trial_loop(k, i, limit) ==
    IF i <= limit
    THEN IF k % i = 0 THEN 0 ELSE trial_loop(k, i + 2, limit)
    ELSE 1

trial_division_is_prime(k) ==
    IF k < 2 THEN 0
    ELSE IF k \in {2, 3} THEN 1
    ELSE IF k % 2 = 0 THEN 0
    ELSE trial_loop(k, 3, isqrt(k))

\* ----------------------------------------------------------- Miller-Rabin
\* pow(a, e, n): modular exponentiation by squaring.
RECURSIVE pow_mod(_, _, _)
pow_mod(a, e, n) ==
    IF e = 0 THEN 1 % n
    ELSE LET h == pow_mod(a, e \div 2, n)
             sq == (h * h) % n
         IN IF e % 2 = 1 THEN (sq * a) % n ELSE sq

\* mr_square_loop testing x without squaring it first.
RECURSIVE mr_square_loop_NoSquaring(_, _, _)
mr_square_loop_NoSquaring(x, n, left) ==
    IF left <= 0 THEN TRUE
    ELSE IF x = n - 1 THEN FALSE ELSE mr_square_loop_NoSquaring(x, n, left - 1)

\* The squaring loop of lines 77-80: left iterations remain.
RECURSIVE mr_square_loop(_, _, _)
mr_square_loop(x, n, left) ==
    IF left <= 0 THEN TRUE
    ELSE LET y == (x * x) % n
         IN IF y = n - 1 THEN FALSE ELSE mr_square_loop(y, n, left - 1)

\* mr_try_composite without the x == 1 test of line 75.
mr_try_composite_NoOneTest(a, dd, n, ss) ==
    LET x == pow_mod(a, dd, n)
    IN IF x = n - 1 THEN FALSE
       ELSE mr_square_loop(x, n, ss - 1)

\* TRUE when base a proves n composite.
mr_try_composite(a, dd, n, ss) ==
    LET x == pow_mod(a, dd, n)
    IN IF x = 1 \/ x = n - 1 THEN FALSE
       ELSE mr_square_loop(x, n, ss - 1)

small_primes == <<2, 3, 5, 7, 11, 13, 17, 19, 23, 29>>

\* mr_quick returning 0 for every multiple of a small prime, the prime included.
RECURSIVE mr_quick_PrimeRejected(_, _)
mr_quick_PrimeRejected(n, j) ==
    IF j > Len(small_primes) THEN -1
    ELSE IF n % small_primes[j] = 0 THEN 0
         ELSE mr_quick_PrimeRejected(n, j + 1)

\* Lines 93-95: the verdict of the small-prime loop from index j, or -1 when
\* no small prime divides n.
RECURSIVE mr_quick(_, _)
mr_quick(n, j) ==
    IF j > Len(small_primes) THEN -1
    ELSE IF n % small_primes[j] = 0
         THEN (IF n = small_primes[j] THEN 1 ELSE 0)
         ELSE mr_quick(n, j + 1)

\* Lines 98-102: n - 1 = d * 2^s with d odd.
RECURSIVE mr_decompose(_, _)
mr_decompose(dd, ss) ==
    IF dd % 2 = 0 THEN mr_decompose(dd \div 2, ss + 1)
    ELSE [d |-> dd, s |-> ss]

\* ------------------------------------------------- upper_bound_nth_prime
\* math.log is modelled by interval arithmetic in fixed point: a value x is
\* held as the integer x * FP, and every operation takes a direction up:
\* up = 0 rounds toward a lower bound of the real result, up = 1 toward an
\* upper bound.  The real n*(ln n + ln ln n), and with it the float the code
\* computes, lies between the two.
FP == 2^27
HalfBits == 2^14

\* a * b / FP for 0 <= a, b < FP; the dropped low product is below 3 units.
MulFix(a, b, up) ==
    LET a1 == a \div HalfBits
        a0 == a % HalfBits
        b1 == b \div HalfBits
        b0 == b % HalfBits
    IN 2 * a1 * b1 + ((a1 * b0 + a0 * b1) \div (HalfBits \div 2)) + 3 * up

\* Binary long division: the quotient bits of rem / den after the point.
RECURSIVE DivBits(_, _, _, _)
DivBits(rem, den, bits, acc) ==
    IF bits = 0 THEN acc
    ELSE LET r2 == 2 * rem
         IN IF r2 >= den THEN DivBits(r2 - den, den, bits - 1, 2 * acc + 1)
                         ELSE DivBits(r2, den, bits - 1, 2 * acc)

\* num / den in fixed point, for 0 <= num < den.
DivFix(num, den, up) == DivBits(num, den, 27, 0) + up

\* z + z^3/3 + z^5/5 + ... from the term of odd index j, whose power of z is
\* pw; z2 is z*z.  For z <= 1/3 the tail after pw is below 2*pw.
RECURSIVE AtanhSeries(_, _, _, _)
AtanhSeries(z2, pw, j, up) ==
    IF pw <= 16 THEN (IF up = 1 THEN 2 * pw + 2 ELSE 0)
    ELSE (pw \div j) + up + AtanhSeries(z2, MulFix(pw, z2, up), j + 2, up)

\* ln v for v in [FP, 2*FP] (a value in [1, 2]): 2 * atanh((v-1)/(v+1)).
LnMant(v, up) ==
    LET z == DivFix(v - FP, v + FP, up)
    IN 2 * AtanhSeries(MulFix(z, z, up), z, 1, up)

\* ln of the fixed-point value v >= FP: halve down to [1, 2), add k * ln 2.
RECURSIVE LnFix(_, _)
LnFix(v, up) ==
    IF v >= 2 * FP THEN LnMant(2 * FP, up) + LnFix((v + up) \div 2, up)
    ELSE LnMant(v, up)

\* ln of the integer i >= 1 scaled by 1/div (div a power of two, i/div >= 1).
RECURSIVE LnInt(_, _, _)
LnInt(i, div, up) ==
    IF i >= 2 * div THEN LnMant(2 * FP, up) + LnInt(i, 2 * div, up)
    ELSE LnMant(i * (FP \div div), up)

\* math.log(n) + math.log(math.log(n)), n >= 3.
LogSum(n, up) ==
    LET l == LnInt(n, 1, up)
    IN l + LnFix(l, up)

\* math.ceil(n * x) for the fixed-point x.
CeilMul(n, x) ==
    LET f1 == (x % FP) \div HalfBits
        f0 == (x % FP) % HalfBits
        u == n * f1 + ((n * f0 + HalfBits - 1) \div HalfBits)
    IN n * (x \div FP) + ((u + (HalfBits \div 2) - 1) \div (HalfBits \div 2))

small_bounds == <<2, 3, 5, 7, 11>>

\* list[i] of Python: indices from 0, negative ones from the end.
PyIndex(list, i) == IF i >= 0 THEN list[i + 1] ELSE list[Len(list) + i + 1]

\* upper_bound_nth_prime without the ln ln n term.
upper_bound_nth_prime_NoLogLog(n) ==
    IF n < 6 THEN {PyIndex(small_bounds, n - 1)}
    ELSE CeilMul(n, LnInt(n, 1, 0)) .. CeilMul(n, LnInt(n, 1, 1))

\* The values upper_bound_nth_prime(n) can return: the ceilings of
\* the lower and of the upper bound of n*(ln n + ln ln n) and what lies
\* between (one value whenever the two ceilings agree).
upper_bound_nth_prime(n) ==
    IF n < 6 THEN {PyIndex(small_bounds, n - 1)}
    ELSE CeilMul(n, LogSum(n, 0)) .. CeilMul(n, LogSum(n, 1))


\* rounds: int = 8
DefaultRounds == 8

\* ------------------------------------------------------------------ state
VARIABLES
    \* the leaf call in progress
    fn,          \* "wilson", "trial", "mr", "custom", "bound"; "none" outside one
    arg,         \* its argument
    rounds,      \* miller_rabin_is_prime's rounds
    dpc,         \* "idle", "called", "mr_loop" (in the witness loop), "ret"
    ret,         \* the value returned
    early,       \* wilson_is_prime returned from inside its loop
    d, s,        \* miller_rabin_is_prime's d and s
    round,       \* witness rounds completed
    \* the nth_prime_via_detector call in progress
    n, detector, upper_bound_func,
    pc,          \* "entry", "bound", "scan", "wait" (in detector(m)), "returned",
                 \* "ValueError", "RuntimeError"; "idle" between calls; "off" when
                 \* the caller calls the leaf functions directly
    B, m, count,
    result,      \* the value returned (pc = "returned")
    \* what the call in progress has done so far
    boundCalls,  \* calls of upper_bound_func
    detCalls,    \* calls of detector
    lastCand,    \* the candidate of the latest detector call
    accepted,    \* the candidates the detector accepted
    \* the caller
    pending,     \* the functions still to be called
    results      \* function name -> what its finished call gave

leafVars == <<fn, arg, rounds, dpc, ret, early, d, s, round>>
callVars == <<n, detector, upper_bound_func, pc, B, m, count, result>>
histVars == <<boundCalls, detCalls, lastCand, accepted>>
callerVars == <<pending, results>>
vars == <<leafVars, callVars, histVars, callerVars>>

Named(name) == [name |-> name, acc |-> {}]
Custom(acc) == [name |-> "custom", acc |-> acc]
DefaultBound == [kind |-> "default", val |-> 0]
ConstBound(b) == [kind |-> "const", val |-> b]
Ended == {"returned", "ValueError", "RuntimeError"}

\* --------------------------------------------------------- leaf functions
\* wilson_is_prime(arg)
WilsonCall ==
    /\ dpc = "called" /\ fn = "wilson"
    /\ ret' = wilson_is_prime(arg)
    /\ early' = wilson_run(arg).early
    /\ dpc' = "ret"
    /\ UNCHANGED <<fn, arg, rounds, d, s, round>>
    /\ UNCHANGED <<callVars, histVars, callerVars>>

\* trial_division_is_prime(arg)
TrialCall ==
    /\ dpc = "called" /\ fn = "trial"
    /\ ret' = trial_division_is_prime(arg)
    /\ dpc' = "ret"
    /\ UNCHANGED <<fn, arg, rounds, early, d, s, round>>
    /\ UNCHANGED <<callVars, histVars, callerVars>>

\* A caller-supplied detector: it accepts the members of detector.acc.
CustomCall ==
    /\ dpc = "called" /\ fn = "custom"
    /\ ret' = IF arg \in detector.acc THEN 1 ELSE 0
    /\ dpc' = "ret"
    /\ UNCHANGED <<fn, arg, rounds, early, d, s, round>>
    /\ UNCHANGED <<callVars, histVars, callerVars>>

\* upper_bound_nth_prime(arg), called directly
BoundCall ==
    /\ dpc = "called" /\ fn = "bound"
    /\ ret' \in upper_bound_nth_prime(arg)
    /\ dpc' = "ret"
    /\ UNCHANGED <<fn, arg, rounds, early, d, s, round>>
    /\ UNCHANGED <<callVars, histVars, callerVars>>

\* miller_rabin_is_prime(arg, rounds), lines 88-102: up to the witness loop.
MRBegin ==
    /\ dpc = "called" /\ fn = "mr"
    /\ IF arg < 2
       THEN ret' = 0 /\ dpc' = "ret" /\ UNCHANGED <<d, s, round>>
       ELSE IF mr_quick(arg, 1) # -1
       THEN ret' = mr_quick(arg, 1) /\ dpc' = "ret" /\ UNCHANGED <<d, s, round>>
       ELSE /\ d' = mr_decompose(arg - 1, 0).d
            /\ s' = mr_decompose(arg - 1, 0).s
            /\ round' = 0
            /\ dpc' = "mr_loop"
            /\ UNCHANGED ret
    /\ UNCHANGED <<fn, arg, rounds, early>>
    /\ UNCHANGED <<callVars, histVars, callerVars>>

\* One round of the witness loop, lines 105-108: a = random.randrange(2, n - 1)
\* is any value of 2..n-2.
MRRound ==
    /\ dpc = "mr_loop" /\ round < rounds
    /\ \E a \in 2..(arg - 2) :
          IF mr_try_composite(a, d, arg, s)
          THEN ret' = 0 /\ dpc' = "ret" /\ UNCHANGED round
          ELSE round' = round + 1 /\ UNCHANGED <<ret, dpc>>
    /\ UNCHANGED <<fn, arg, rounds, early, d, s>>
    /\ UNCHANGED <<callVars, histVars, callerVars>>

\* The witness loop is over, line 109.
MRPass ==
    /\ dpc = "mr_loop" /\ round >= rounds
    /\ ret' = 1
    /\ dpc' = "ret"
    /\ UNCHANGED <<fn, arg, rounds, early, d, s, round>>
    /\ UNCHANGED <<callVars, histVars, callerVars>>

\* ------------------------------------------- the caller of leaf functions
\* The caller calls the next pending function on arg ...
LeafCall ==
    /\ pc = "off" /\ dpc = "idle" /\ pending # <<>>
    /\ fn' = Head(pending)
    /\ pending' = Tail(pending)
    /\ dpc' = "called"
    /\ ret' = 0 /\ early' = FALSE /\ d' = 0 /\ s' = 0 /\ round' = 0
    /\ UNCHANGED <<arg, rounds, results>>
    /\ UNCHANGED <<callVars, histVars>>

\* ... and keeps what it returned.
LeafReturn ==
    /\ pc = "off" /\ dpc = "ret"
    /\ results' = (fn :> ret) @@ results
    /\ dpc' = "idle"
    /\ UNCHANGED <<fn, arg, rounds, ret, early, d, s, round, pending>>
    /\ UNCHANGED <<callVars, histVars>>

\* The three detectors in turn on k in -NegK..MaxK (Miller-Rabin with rounds
\* in 0..MaxRounds), or the bound estimator on n in 1..MaxN.
LeafInit ==
    /\ \/ /\ pending = <<"wilson", "trial", "mr">>
          /\ arg \in (0 - NegK)..MaxK
          /\ rounds \in 0..MaxRounds
       \/ /\ pending = <<"bound">>
          /\ arg \in 1..MaxN
          /\ rounds = DefaultRounds
    /\ fn = "none" /\ dpc = "idle" /\ ret = 0 /\ early = FALSE
    /\ d = 0 /\ s = 0 /\ round = 0
    /\ n = 0 /\ detector = Named("none") /\ upper_bound_func = DefaultBound
    /\ pc = "off" /\ B = 0 /\ m = 0 /\ count = 0 /\ result = 0
    /\ boundCalls = 0 /\ detCalls = 0 /\ lastCand = 0 /\ accepted = {}
    /\ results = <<>>

LeafNext ==
    \/ LeafCall
    \/ WilsonCall
    \/ TrialCall
    \/ MRBegin
    \/ MRRound
    \/ MRPass
    \/ BoundCall
    \/ LeafReturn

LeafSpec == LeafInit /\ [][LeafNext]_vars

\* ------------------------------------------------ nth_prime_via_detector
\* upper_bound_func(n): the values the bound function can return.
upper_bound_values(f, i) ==
    IF f.kind = "default" THEN upper_bound_nth_prime(i) ELSE {f.val}

\* The caller calls nth_prime_via_detector(n, detector, upper_bound_func)
\* with the next pending detector.
FinderCall ==
    /\ pc = "idle" /\ pending # <<>>
    /\ detector' = Head(pending)
    /\ pending' = Tail(pending)
    /\ pc' = "entry"
    /\ B' = 0 /\ m' = 0 /\ count' = 0 /\ result' = 0
    /\ boundCalls' = 0 /\ detCalls' = 0 /\ lastCand' = 0 /\ accepted' = {}
    /\ UNCHANGED <<n, upper_bound_func, results>>
    /\ UNCHANGED leafVars

\* Enter with the argument check n < 0 for n <= 0.
Enter_ZeroAccepted ==
    /\ pc = "entry"
    /\ IF n < 0
       THEN /\ pc' = "ValueError"
            /\ UNCHANGED <<B, m, count, result, boundCalls>>
       ELSE IF n = 1
       THEN /\ result' = 2
            /\ pc' = "returned"
            /\ UNCHANGED <<B, m, count, boundCalls>>
       ELSE /\ B' \in upper_bound_values(upper_bound_func, n)
            /\ boundCalls' = boundCalls + 1
            /\ count' = 0
            /\ m' = 2
            /\ pc' = "scan"
            /\ UNCHANGED result
    /\ UNCHANGED <<n, detector, upper_bound_func>>
    /\ UNCHANGED <<detCalls, lastCand, accepted>>
    /\ UNCHANGED <<leafVars, callerVars>>

\* Enter without the n == 1 shortcut of lines 127-128.
Enter_NoShortcut ==
    /\ pc = "entry"
    /\ IF n <= 0
       THEN /\ pc' = "ValueError"
            /\ UNCHANGED <<B, m, count, result, boundCalls>>
       ELSE /\ B' \in upper_bound_values(upper_bound_func, n)
            /\ boundCalls' = boundCalls + 1
            /\ count' = 0
            /\ m' = 2
            /\ pc' = "scan"
            /\ UNCHANGED result
    /\ UNCHANGED <<n, detector, upper_bound_func>>
    /\ UNCHANGED <<detCalls, lastCand, accepted>>
    /\ UNCHANGED <<leafVars, callerVars>>

\* Lines 124-131: the argument check, the n == 1 shortcut, and otherwise
\* B = upper_bound_func(n), count = 0 and the start of the for loop.
Enter ==
    /\ pc = "entry"
    /\ IF n <= 0
       THEN /\ pc' = "ValueError"
            /\ UNCHANGED <<B, m, count, result, boundCalls>>
       ELSE IF n = 1
       THEN /\ result' = 2
            /\ pc' = "returned"
            /\ UNCHANGED <<B, m, count, boundCalls>>
       ELSE /\ B' \in upper_bound_values(upper_bound_func, n)
            /\ boundCalls' = boundCalls + 1
            /\ count' = 0
            /\ m' = 2
            /\ pc' = "scan"
            /\ UNCHANGED result
    /\ UNCHANGED <<n, detector, upper_bound_func>>
    /\ UNCHANGED <<detCalls, lastCand, accepted>>
    /\ UNCHANGED <<leafVars, callerVars>>

\* ScanNext with range(2, B) for range(2, B + 1).
ScanNext_ExclusiveBound ==
    /\ pc = "scan"
    /\ IF m < B
       THEN /\ fn' = detector.name
            /\ arg' = m
            /\ rounds' = DefaultRounds
            /\ dpc' = "called"
            /\ ret' = 0 /\ early' = FALSE /\ d' = 0 /\ s' = 0 /\ round' = 0
            /\ detCalls' = detCalls + 1
            /\ lastCand' = m
            /\ pc' = "wait"
       ELSE /\ pc' = "RuntimeError"
            /\ UNCHANGED <<leafVars, detCalls, lastCand>>
    /\ UNCHANGED <<n, detector, upper_bound_func, B, m, count, result>>
    /\ UNCHANGED <<boundCalls, accepted>>
    /\ UNCHANGED callerVars

\* Line 133, the head of the for loop over range(2, B + 1): detector(m) is
\* called (line 134), or the range is exhausted and RuntimeError is raised
\* (lines 139-141).
ScanNext ==
    /\ pc = "scan"
    /\ IF m <= B
       THEN /\ fn' = detector.name
            /\ arg' = m
            /\ rounds' = DefaultRounds
            /\ dpc' = "called"
            /\ ret' = 0 /\ early' = FALSE /\ d' = 0 /\ s' = 0 /\ round' = 0
            /\ detCalls' = detCalls + 1
            /\ lastCand' = m
            /\ pc' = "wait"
       ELSE /\ pc' = "RuntimeError"
            /\ UNCHANGED <<leafVars, detCalls, lastCand>>
    /\ UNCHANGED <<n, detector, upper_bound_func, B, m, count, result>>
    /\ UNCHANGED <<boundCalls, accepted>>
    /\ UNCHANGED callerVars

\* ScanResume comparing count with n before counting the candidate.
ScanResume_CountAfter ==
    /\ pc = "wait" /\ dpc = "ret"
    /\ dpc' = "idle"
    /\ IF ret # 0
       THEN /\ count' = count + 1
            /\ accepted' = accepted \cup {m}
            /\ IF count = n
               THEN result' = m /\ pc' = "returned" /\ UNCHANGED m
               ELSE m' = m + 1 /\ pc' = "scan" /\ UNCHANGED result
       ELSE /\ m' = m + 1
            /\ pc' = "scan"
            /\ UNCHANGED <<count, accepted, result>>
    /\ UNCHANGED <<n, detector, upper_bound_func, B>>
    /\ UNCHANGED <<fn, arg, rounds, ret, early, d, s, round>>
    /\ UNCHANGED <<boundCalls, detCalls, lastCand>>
    /\ UNCHANGED callerVars

\* Lines 134-137: detector(m) has returned ret.
ScanResume ==
    /\ pc = "wait" /\ dpc = "ret"
    /\ dpc' = "idle"
    /\ IF ret # 0
       THEN /\ count' = count + 1
            /\ accepted' = accepted \cup {m}
            /\ IF count + 1 = n
               THEN result' = m /\ pc' = "returned" /\ UNCHANGED m
               ELSE m' = m + 1 /\ pc' = "scan" /\ UNCHANGED result
       ELSE /\ m' = m + 1
            /\ pc' = "scan"
            /\ UNCHANGED <<count, accepted, result>>
    /\ UNCHANGED <<n, detector, upper_bound_func, B>>
    /\ UNCHANGED <<fn, arg, rounds, ret, early, d, s, round>>
    /\ UNCHANGED <<boundCalls, detCalls, lastCand>>
    /\ UNCHANGED callerVars

\* The caller keeps the outcome of the call.
FinderReturn ==
    /\ pc \in Ended
    /\ results' = (detector.name :> [kind |-> pc, val |-> result]) @@ results
    /\ pc' = "idle"
    /\ UNCHANGED <<n, detector, upper_bound_func, B, m, count, result>>
    /\ UNCHANGED <<leafVars, histVars, pending>>

NamedDetectors == <<Named("wilson"), Named("trial"), Named("mr")>>
ExactDetectors == <<Named("wilson"), Named("trial")>>

\* The caller hands the same n and bound function to each detector of a list:
\* with the default bound function, the exact detectors for n up to MaxN and
\* Miller-Rabin too for n up to MaxSubstN; with any bound function (the default
\* or a constant one) and n up to MaxConstN, the three detectors or a
\* caller-supplied one.
Init ==
    /\ \/ /\ n \in (0 - NegN)..MaxN
          /\ upper_bound_func = DefaultBound
          /\ pending = IF n <= MaxSubstN THEN NamedDetectors ELSE ExactDetectors
       \/ /\ n \in (0 - NegN)..MaxConstN
          /\ upper_bound_func \in {ConstBound(b) : b \in (0 - NegB)..MaxConstB}
          /\ pending \in {NamedDetectors} \cup {<<Custom(acc)>> : acc \in SUBSET (2..MaxAccept)}
       \/ /\ n \in (0 - NegN)..MaxConstN
          /\ upper_bound_func = DefaultBound
          /\ pending \in {<<Custom(acc)>> : acc \in SUBSET (2..MaxAccept)}
    /\ detector = Named("none")
    /\ pc = "idle" /\ B = 0 /\ m = 0 /\ count = 0 /\ result = 0
    /\ boundCalls = 0 /\ detCalls = 0 /\ lastCand = 0 /\ accepted = {}
    /\ fn = "none" /\ arg = 0 /\ rounds = DefaultRounds
    /\ dpc = "idle" /\ ret = 0 /\ early = FALSE
    /\ d = 0 /\ s = 0 /\ round = 0
    /\ results = <<>>

Next ==
    \/ FinderCall
    \/ Enter
    \/ ScanNext
    \/ WilsonCall
    \/ TrialCall
    \/ CustomCall
    \/ MRBegin
    \/ MRRound
    \/ MRPass
    \/ ScanResume
    \/ FinderReturn

Spec == Init /\ [][Next]_vars

\* ------------------------------------------------------------ the claims
\* A direct call of leaf function f has returned.
Returned(f) == pc = "off" /\ fn = f /\ dpc = "ret"

\* C4: trial_division_is_prime(k) returns the prime verdict exactly when k is
\* prime, for every integer k: k < 2 gives 0, 2 and 3 give 1, an even k > 2
\* gives 0, and an odd k > 3 gives 0 exactly when some odd i with
\* 3 <= i <= floor(sqrt(k)) divides k.
C4_TrialDivisionExact ==
    Returned("trial") =>
        /\ ret \in {0, 1}
        /\ ret = 1 <=> IsPrime(arg)
        /\ arg < 2 => ret = 0
        /\ arg \in {2, 3} => ret = 1
        /\ (arg > 2 /\ arg % 2 = 0) => ret = 0
        /\ (arg > 3 /\ arg % 2 = 1) =>
              (ret = 0 <=> \E i \in 3..arg : i % 2 = 1 /\ i * i <= arg /\ arg % i = 0)

\* An odd perfect square is rejected.
C4_Witness == Returned("trial") /\ arg = 49 /\ ret = 0

\* C5: wilson_is_prime(k) returns the prime verdict exactly when k is prime,
\* for every integer k; the return from inside the loop, on a running product
\* of 0, is taken only for a composite k; 4, 9 and 25 are reported not prime.
C5_WilsonExact ==
    Returned("wilson") =>
        /\ ret \in {0, 1}
        /\ ret = 1 <=> IsPrime(arg)
        /\ early => (arg > 3 /\ ~IsPrime(arg) /\ ret = 0)
        /\ arg \in {4, 9, 25} => ret = 0

\* 25 leaves by the early exit.
C5_Witness == Returned("wilson") /\ arg = 25 /\ early /\ ret = 0

\* C6: miller_rabin_is_prime never reports a prime as composite, whatever the
\* round count and the bases drawn: a prime of the small-prime list is
\* accepted before the witness loop, a larger prime survives every round.
C6_MillerRabinOneSided ==
    (pc = "off" /\ fn = "mr" /\ IsPrime(arg)) =>
        /\ dpc = "ret" => ret = 1
        /\ arg <= 29 => dpc # "mr_loop"
        /\ (arg > 29 /\ dpc = "ret") => round = rounds

\* A prime above the small-prime list has survived MaxRounds rounds.
C6_Witness ==
    Returned("mr") /\ arg = 997 /\ rounds = MaxRounds /\ round = MaxRounds /\ ret = 1

\* The caller has the verdicts of the three detectors on arg.
AllVerdicts == pc = "off" /\ DOMAIN results = {"wilson", "trial", "mr"}

\* C7 as stated: for rounds >= 8 the three detectors return the same verdict
\* on every k, in every execution.
C7_AllAgree ==
    (AllVerdicts /\ rounds >= DefaultRounds) =>
        /\ results["wilson"] = results["trial"]
        /\ results["mr"] = results["wilson"]

\* C7 as amended: Wilson and trial division agree on every k, and Miller-Rabin
\* agrees with them unless k is a composite with no prime factor up to 29
\* (k >= 961), all the bases drawn were strong liars for k and Miller-Rabin
\* returned prime.
C7_AgreeUpToLiars ==
    (AllVerdicts /\ rounds >= DefaultRounds) =>
        /\ results["wilson"] = results["trial"]
        /\ \/ results["mr"] = results["wilson"]
           \/ /\ results["mr"] = 1
              /\ results["wilson"] = 0
              /\ ~IsPrime(arg)
              /\ arg >= 961
              /\ \A i \in 1..Len(small_primes) : arg % small_primes[i] # 0
              /\ round = rounds
              /\ \E a \in 2..(arg - 2) : ~mr_try_composite(a, d, arg, s)

\* The three detectors agree on 961 = 31 * 31, which reaches the witness loop.
C7_Witness ==
    /\ AllVerdicts /\ rounds >= DefaultRounds /\ arg = 961
    /\ results["mr"] = 0 /\ results["wilson"] = 0 /\ results["trial"] = 0

\* C8: upper_bound_nth_prime(n) is at least the nth prime for every n >= 1:
\* the nth prime itself, from the table, for n in 1..5, and the ceiling of
\* n*(ln n + ln ln n), which float rounding cannot move, for n >= 6.
C8_BoundAboveNthPrime ==
    Returned("bound") =>
        /\ ret >= NthPrime(arg)
        /\ arg <= 5 => (ret = NthPrime(arg) /\ ret = <<2, 3, 5, 7, 11>>[arg])
        /\ arg >= 6 => upper_bound_nth_prime(arg) = {ret}

\* The first rank past the table: 15 bounds the 6th prime, 13.
C8_Witness == Returned("bound") /\ arg = 6 /\ ret = 15 /\ NthPrime(arg) = 13

\* The verdict of a deterministic detector on k.
DetectorAccepts(det, k) ==
    CASE det.name = "wilson" -> wilson_is_prime(k) # 0
      [] det.name = "trial" -> trial_division_is_prime(k) # 0
      [] det.name = "custom" -> k \in det.acc

\* The integers of 2..b the detector of the call accepts (for Miller-Rabin,
\* whose verdict is drawn, those it accepted in this call).
AcceptedUpTo(b) ==
    IF detector.name = "mr" THEN accepted \cap (2..b)
    ELSE {k \in 2..b : DetectorAccepts(detector, k)}

\* C1: for n >= 1, an exact detector and a bound function whose value is at
\* least the nth prime, nth_prime_via_detector returns the nth prime; with
\* the default bound function it returns 2 for n = 1, 13 for n = 6 and 541
\* for n = 100.
C1_ReturnsNthPrime ==
    (pc \in Ended /\ n >= 1 /\ detector.name \in {"wilson", "trial"}) =>
        /\ (\A b \in upper_bound_values(upper_bound_func, n) : b >= NthPrime(n))
              => (pc = "returned" /\ result = NthPrime(n))
        /\ (upper_bound_func = DefaultBound /\ n = 1) => (pc = "returned" /\ result = 2)
        /\ (upper_bound_func = DefaultBound /\ n = 6) => (pc = "returned" /\ result = 13)
        /\ (upper_bound_func = DefaultBound /\ n = 100) => (pc = "returned" /\ result = 541)

\* The 100th prime by Wilson's detector under the default bound.
C1_Witness ==
    /\ pc = "returned" /\ n = 100 /\ detector.name = "wilson"
    /\ upper_bound_func = DefaultBound /\ result = 541

\* C2: for n <= 0, any detector and any bound function, the call ends in
\* ValueError and returns no value (and calls neither function).
C2_NonPositiveRejected ==
    n <= 0 =>
        /\ pc \in {"idle", "entry", "ValueError"}
        /\ result = 0 /\ boundCalls = 0 /\ detCalls = 0
        /\ \A x \in DOMAIN results : results[x] = [kind |-> "ValueError", val |-> 0]

\* n = 0 with a caller-supplied detector and bound function.
C2_Witness ==
    /\ pc = "ValueError" /\ n = 0 /\ detector.name = "custom"
    /\ upper_bound_func.kind = "const"

\* C3: for n >= 2, any detector and any bound value B, the call ends in
\* RuntimeError if and only if fewer than n integers of 2..B are accepted by
\* the detector; otherwise it returns an m of 2..B.
C3_ExhaustionIffTooFew ==
    (pc \in Ended /\ n >= 2) =>
        /\ pc = "RuntimeError" <=> Cardinality(AcceptedUpTo(B)) < n
        /\ pc # "RuntimeError" => (pc = "returned" /\ result \in 2..B)

\* A bound below 2: the range is empty and the call raises at once.
C3_Witness ==
    /\ pc = "RuntimeError" /\ n >= 2 /\ B < 2 /\ detCalls = 0
    /\ detector.name = "custom"

\* C9: with the default bound function and n >= 1, the calls with Wilson,
\* trial division and Miller-Rabin return the same value, whatever bases
\* Miller-Rabin draws.
C9_DetectorsSubstitutable ==
    (upper_bound_func = DefaultBound /\ n >= 1) =>
        \A x, y \in DOMAIN results \cap {"wilson", "trial", "mr"} :
            /\ results[x].kind = "returned"
            /\ results[x] = results[y]

\* The three calls for n = 50 returned 229.
C9_Witness ==
    /\ n = 50 /\ upper_bound_func = DefaultBound
    /\ DOMAIN results = {"wilson", "trial", "mr"}
    /\ results["mr"] = [kind |-> "returned", val |-> 229]
    /\ results["wilson"] = results["mr"] /\ results["trial"] = results["mr"]

\* What holds of the calls made so far inside one nth_prime_via_detector call.
CallOrderInv ==
    /\ n <= 1 => (boundCalls = 0 /\ detCalls = 0)
    /\ (n = 1 /\ pc \in Ended) => (pc = "returned" /\ result = 2)
    /\ boundCalls <= 1
    /\ (n >= 2 /\ pc \in {"scan", "wait", "returned", "RuntimeError"}) => boundCalls = 1
    /\ detCalls > 0 => (boundCalls = 1 /\ lastCand = detCalls + 1 /\ lastCand <= B)
    /\ (n >= 2 /\ pc = "returned") => (lastCand = result /\ count = n)

\* What holds of each further call.
CallOrderStep ==
    /\ boundCalls' > boundCalls => (boundCalls = 0 /\ detCalls = 0)
    /\ detCalls' > detCalls =>
          /\ boundCalls = 1 /\ count < n /\ pc = "scan"
          /\ detCalls' = detCalls + 1
          /\ lastCand' = (IF detCalls = 0 THEN 2 ELSE lastCand + 1)
          /\ lastCand' <= B
    /\ pc \in Ended => (detCalls' = detCalls \/ pc' = "entry")

\* C10: for n <= 1 neither the bound function nor the detector is called (and
\* n = 1 returns 2); for n >= 2 the bound function is called once, before any
\* detector call, and the detector is called on 2, 3, 4, ... in increasing
\* order, once per candidate, never above B and never after the candidate
\* that makes the count reach n.
C10_CallOrdering == [](CallOrderInv) /\ [][CallOrderStep]_vars

\* n = 1 returned 2 although the detector rejects 2.
C10_Witness ==
    /\ pc = "returned" /\ n = 1 /\ result = 2
    /\ detector.name = "custom" /\ 2 \notin detector.acc
    /\ boundCalls = 0 /\ detCalls = 0

====
